---- MODULE Spec2Model ----
(***************************************************************************)
(* Token-ownership verification program (program/src/main.rs): signature   *)
(* recovery, Merkle inclusion, deduplication and aggregation of balances.  *)
(*                                                                         *)
(* Keccak256 and secp256k1 are modelled symbolically: a digest is the      *)
(* record of what was hashed (a collision-free hash), a signature is the   *)
(* record of who signed which digest.  Integers keep the width the program *)
(* gives them: a u64 is four 16-bit limbs, a u32 is two, least significant *)
(* limb first.                                                             *)
(***************************************************************************)
EXTENDS Integers, Sequences, FiniteSets, TLC

\* ------------------------------------------------------------- integers

\* Width of one limb: 2^16.
LimbBase == 65536

\* balance: u64, total_balance = 0u64: four limbs.
U64Limbs == 4

\* index: u32: two limbs, 32 bits.
U32Bits == 32

LimbBits == 16

RECURSIVE Pow2(_)
Pow2(n) == IF n = 0 THEN 1 ELSE 2 * Pow2(n - 1)

U64Zero == [k \in 1..U64Limbs |-> 0]

\* The u64 whose value is the small number n (n < LimbBase).
U64Of(n) == [k \in 1..U64Limbs |-> IF k = 1 THEN n ELSE 0]

\* Limb k of a number written in limbs, 0 past its last limb.
LimbAt(a, k) == IF k <= Len(a) THEN a[k] ELSE 0

RECURSIVE CarryInto(_, _, _)
\* The carry into limb k of a + b.
CarryInto(a, b, k) ==
    IF k = 1 THEN 0
    ELSE (LimbAt(a, k - 1) + LimbAt(b, k - 1) + CarryInto(a, b, k - 1)) \div LimbBase

\* a + b of two numbers in limbs, as a number of n limbs (exact when n is
\* one more than the longer operand).
AddLimbs(a, b, n) ==
    [k \in 1..n |-> (LimbAt(a, k) + LimbAt(b, k) + CarryInto(a, b, k)) % LimbBase]

\* Whether a + b of two u64 does not fit a u64.
u64_add_overflows(a, b) == CarryInto(a, b, U64Limbs + 1) # 0

\* a + b reduced modulo 2^64.
u64_wrapping_add(a, b) == AddLimbs(a, b, U64Limbs)

\* Equality of two numbers in limbs of any lengths.
SameNumber(a, b) ==
    \A k \in 1..(IF Len(a) > Len(b) THEN Len(a) ELSE Len(b)) : LimbAt(a, k) = LimbAt(b, k)

RECURSIVE RemInto(_, _)
\* The remainder carried into limb k when dividing x by ten, from the most
\* significant limb down.
RemInto(x, k) ==
    IF k = Len(x) THEN 0
    ELSE (RemInto(x, k + 1) * LimbBase + x[k + 1]) % 10

DivTen(x) == [k \in 1..Len(x) |-> (RemInto(x, k) * LimbBase + x[k]) \div 10]

ModTen(x) == (RemInto(x, 1) * LimbBase + x[1]) % 10

RECURSIVE Digits(_)
\* The decimal digits of x, most significant first; none for zero.
Digits(x) ==
    IF \A k \in 1..Len(x) : x[k] = 0 THEN <<>>
    ELSE Append(Digits(DivTen(x)), ModTen(x))

\* u64::to_string: decimal, no sign, no leading zeros, "0" for zero.
to_string(balance) ==
    LET digits == Digits(balance) IN IF digits = <<>> THEN <<0>> ELSE digits

\* Bit i (0 = least significant) of a u32 in limbs.
BitOf(bits, i) == (bits[(i \div LimbBits) + 1] \div Pow2(i % LimbBits)) % 2

\* ------------------------------------------------ build and run state

VARIABLES
    overflow_checks,      \* the build's overflow-checks setting (debug: on, release: off)
    public_inputs,        \* PublicInputs as read at line 132
    private_inputs,       \* PrivateInputs.signed_messages as read at line 133
    active,               \* the runs started on these inputs
    pc,                   \* per run: where main() stands
    next_message,         \* per run: position of the for loop in signed_messages
    expected_merkle_root, \* per run: the parsed root (line 136)
    seen_addresses,       \* per run: the HashSet of line 139
    total_balance,        \* per run: the accumulator of line 142
    committed,            \* per run: the values handed to sp1_zkvm::io::commit, in order
    aborted_at,           \* per run: the place of the panic that ended it, "" if none
    contributed,          \* per run: history of the additions made at line 166
    probe,                \* SpecRoot: the arguments of compute_inclusion_root
    applied               \* SpecRoot: what compute_inclusion_root returned for them

vars == <<overflow_checks, public_inputs, private_inputs, active, pc, next_message,
          expected_merkle_root, seen_addresses, total_balance, committed,
          aborted_at, contributed, probe, applied>>

\* ------------------------------------------------ results and panics

Ok(v) == [ok |-> TRUE, val |-> v]

\* unwrap(), assert!, an index out of bounds or a checked overflow: the run aborts.
Panic(where) == [ok |-> FALSE, at |-> where]

\* ------------------------------------------------------------ hashing

\* Keccak256 of an input: symbolic and collision-free.
Keccak256(input) == [keccak |-> input]

\* ------------------------------------------------------- hex strings

\* Length the program asserts for a digest, a root and a sibling (line 51).
Bytes32Len == 32

\* A hex string as the program receives it: with or without "0x", all hex
\* digits or not, the number of bytes it encodes, and those bytes.
HexString(pre, valid, nbytes, bytes) ==
    [pre |-> pre, valid |-> valid, nbytes |-> nbytes, bytes |-> bytes]

\* A well-formed "0x"-prefixed 32-byte hex string.
Hex32(bytes) == HexString(TRUE, TRUE, Bytes32Len, bytes)

\* hex::encode: lowercase digits, no prefix.
hex_encode(nbytes, bytes) ==
    [pre |-> FALSE, valid |-> TRUE, nbytes |-> nbytes, bytes |-> bytes, lower |-> TRUE]

\* hex::decode of a string without prefix: case-insensitive, Err on a bad digit.
hex_decode(hex_str) ==
    IF hex_str.valid THEN Ok(hex_str) ELSE Panic("hex::decode")

hex_to_bytes32(hex) ==
    LET hex_str == [hex EXCEPT !.pre = FALSE]
        bytes == hex_decode(hex_str)
    IN  IF ~bytes.ok THEN bytes
        ELSE IF hex_str.nbytes # Bytes32Len THEN Panic("Expected 32 bytes")
        ELSE Ok(bytes.val.bytes)

\* ------------------------------------------------ signature recovery

\* Length of r || s || v, and of r || s.
SigLen == 65

\* Offset of the recovery byte's convention (v = 27 or 28).
VOffset == 27

\* Largest value RecoveryId::try_from accepts.
MaxRecoveryId == 3

\* The point of secp256k1 that is the public key of `owner`.
KeyOf(owner) ==
    [genuine |-> TRUE, owner |-> owner, signed |-> "", nonce |-> 0, digest |-> "",
     parity |-> 0]

\* The unrelated point a recovery with another digest or parity lands on: the
\* key of nobody, a different one for each (r || s, digest, parity).
StrayKey(rs, digest, parity) ==
    [genuine |-> FALSE, owner |-> rs.signer, signed |-> rs.digest, nonce |-> rs.nonce,
     digest |-> digest, parity |-> parity]

\* r || s produced by `signer` over `digest`; `parity` is the recovery id that
\* leads back to the signer's key. shape: "signed", "invalid" (r or s is not a
\* scalar in range) or "nopoint" (r is not the x of a curve point).
RS(shape, signer, digest, nonce, parity) ==
    [shape |-> shape, signer |-> signer, digest |-> digest, nonce |-> nonce,
     parity |-> parity]

\* A signature string of the input: its first two characters ("0x" or not),
\* and what follows them: all hex digits or not, the number of bytes they
\* encode, the first 64 of those bytes (r || s) and the 65th (v).
SigString(first2, valid, nbytes, rs, v) ==
    [first2 |-> first2, valid |-> valid, nbytes |-> nbytes, rs |-> rs, v |-> v]

\* VerifyingKey::recover_from_prehash.
recover_from_prehash(digest, rs, recovery_id) ==
    IF rs.shape # "signed" \/ recovery_id > 1 THEN Panic("recover_from_prehash")
    ELSE IF digest = rs.digest /\ recovery_id = rs.parity THEN Ok(KeyOf(rs.signer))
    ELSE Ok(StrayKey(rs, digest, recovery_id))

\* Bytes of an uncompressed point: 0x04 || X || Y.
UncompressedTag == 4

recover_pubkey_with_digest(message_digest_hex, signature) ==
    LET \* &signature[2..]: the first two characters go, "0x" or not
        sig_bytes == hex_decode([signature EXCEPT !.first2 = ""])
        message_digest == hex_to_bytes32(message_digest_hex)
    IN  IF ~sig_bytes.ok THEN sig_bytes
        ELSE IF signature.nbytes < SigLen THEN Panic("sig_bytes[64]")
        ELSE IF signature.v < VOffset /\ overflow_checks THEN Panic("recovery_byte - 27")
        ELSE IF signature.v < VOffset \/ signature.v - VOffset > MaxRecoveryId
             THEN Panic("RecoveryId::try_from")
        ELSE IF signature.rs.shape = "invalid" THEN Panic("Signature::try_from")
        ELSE IF ~message_digest.ok THEN message_digest
        ELSE LET recovered_key ==
                     recover_from_prehash(message_digest.val, signature.rs,
                                          signature.v - VOffset)
             IN  IF ~recovered_key.ok THEN recovered_key
                 ELSE Ok(hex_encode(SigLen, [tag |-> UncompressedTag,
                                             xy |-> recovered_key.val]))

\* Length of an address in bytes.
AddressLen == 20

\* An address string: "0x" and the hex digits of the last 20 bytes of a digest.
pubkey_to_address(pubkey_hex) ==
    LET pubkey_bytes == hex_decode(pubkey_hex).val.bytes
        bytes_to_hash == IF pubkey_hex.nbytes > 0 /\ pubkey_bytes.tag = UncompressedTag
                         THEN pubkey_bytes.xy
                         ELSE pubkey_bytes
        hash == Keccak256(bytes_to_hash)
    IN  [pre |-> "0x", lower |-> TRUE, nbytes |-> AddressLen, bytes |-> [last20 |-> hash]]

\* str::to_lowercase.
to_lowercase(str) == [str EXCEPT !.lower = TRUE]

\* ------------------------------------------------------ Merkle leaves

\* Mutant of hash_leaf: the leaf commits to the balance and not to the address.
hash_leaf_without_address(address, balance) ==
    Keccak256([sep |-> ":", balance |-> to_string(balance)])

hash_leaf(address, balance) ==
    LET leaf_str == [address |-> to_lowercase(address), sep |-> ":",
                     balance |-> to_string(balance)]
    IN  Keccak256(leaf_str)

\* 1 << i on a u32: the bit position tested, a panic under overflow checks
\* when i reaches the width, the shift amount masked to the width without.
shl_one(i) ==
    IF i < U32Bits THEN Ok(i)
    ELSE IF overflow_checks THEN Panic("1 << i")
    ELSE Ok(i % U32Bits)

RECURSIVE RootAfter(_, _, _)
\* The value of `root` after the first n iterations of the loop of
\* compute_inclusion_root.
RootAfter(commitment, proof, n) ==
    IF n = 0 THEN Ok(commitment)
    ELSE LET root == RootAfter(commitment, proof, n - 1)
             i == n - 1
             hash == hex_to_bytes32(proof.proof[n])
             bit == shl_one(i)
         IN  IF ~root.ok THEN root
             ELSE IF ~hash.ok THEN hash
             ELSE IF ~bit.ok THEN bit
             ELSE IF BitOf(proof.index, bit.val) = 0
                  THEN Ok(Keccak256([left |-> root.val, right |-> hash.val]))
                  ELSE Ok(Keccak256([left |-> hash.val, right |-> root.val]))

compute_inclusion_root(commitment, proof) ==
    RootAfter(commitment, proof, Len(proof.proof))

\* ------------------------------------------------------------ inputs

\* Longest list of signed messages of a run, and of a pair of runs.
MaxClaims == 3

MaxPairClaims == 2

\* The digest the honest signatures are over, and another one.
SignedDigest == "D1"

OtherDigest == "D2"

\* The address of the holder of a key, as the tree's builder derives it.
AddressOf(owner) ==
    pubkey_to_address(hex_encode(SigLen, [tag |-> UncompressedTag, xy |-> KeyOf(owner)]))

\* 2^64 - 301: with 100 and 200 it sums to 2^64 - 1.
LargeBalance == [k \in 1..U64Limbs |-> IF k = 1 THEN LimbBase - 301 ELSE LimbBase - 1]

\* The token distribution: four (holder, balance) leaves; holder A is listed twice.
Distribution ==
    << [owner |-> "A", balance |-> U64Of(100)],
       [owner |-> "B", balance |-> U64Of(200)],
       [owner |-> "C", balance |-> LargeBalance],
       [owner |-> "A", balance |-> U64Of(101)] >>

Leaf(k) == hash_leaf(AddressOf(Distribution[k].owner), Distribution[k].balance)

Node(left, right) == Keccak256([left |-> left, right |-> right])

DistributionRoot == Node(Node(Leaf(1), Leaf(2)), Node(Leaf(3), Leaf(4)))

\* A 32-byte value that is the digest of nothing in the tree.
Unrelated == [raw |-> "unrelated"]

\* The sibling path of leaf k (1..4): its index and its two siblings.
ProofOf(k) ==
    [index |-> <<k - 1, 0>>,
     proof |-> << Hex32(Leaf(IF k % 2 = 1 THEN k + 1 ELSE k - 1)),
                  Hex32(IF k <= 2 THEN Node(Leaf(3), Leaf(4))
                                  ELSE Node(Leaf(1), Leaf(2))) >>]

\* A well-formed signature of `owner` over SignedDigest.
SignatureOf(owner, nonce) ==
    SigString("0x", TRUE, SigLen, RS("signed", owner, SignedDigest, nonce, nonce % 2),
              VOffset + (nonce % 2))

SignedMessage(signature, balance, inclusion_branches) ==
    [signature |-> signature, balance |-> balance,
     inclusion_branches |-> inclusion_branches]

\* The claim of leaf k, signed by its holder.
HonestClaim(k, nonce) ==
    SignedMessage(SignatureOf(Distribution[k].owner, nonce), Distribution[k].balance,
                  ProofOf(k))

\* The signed messages a run's list is drawn from.
ClaimPool ==
    << HonestClaim(1, 1),
       HonestClaim(2, 1),
       HonestClaim(3, 1),
       \* A's second leaf, with another signature of A's
       HonestClaim(4, 2),
       \* A's first leaf with a tampered sibling
       SignedMessage(SignatureOf("A", 1), U64Of(100),
                     [ProofOf(1) EXCEPT !.proof[2] = Hex32(Unrelated)]),
       \* B's balance and proof under A's signature
       SignedMessage(SignatureOf("A", 1), U64Of(200), ProofOf(2)),
       \* B's claim with v = 0 instead of 27
       SignedMessage([SignatureOf("B", 2) EXCEPT !.v = 0], U64Of(200), ProofOf(2)),
       \* C's claim with a signature that is not hex
       SignedMessage([SignatureOf("C", 1) EXCEPT !.valid = FALSE], LargeBalance,
                     ProofOf(3)),
       \* B's claim with a sibling that is not hex
       SignedMessage(SignatureOf("B", 1), U64Of(200),
                     [ProofOf(2) EXCEPT !.proof[2].valid = FALSE]),
       \* A's first leaf as the only leaf of a tree
       SignedMessage(SignatureOf("A", 2), U64Of(100), [index |-> <<0, 0>>, proof |-> <<>>])
    >>

PublicInputs(message_digest, merkle_root) ==
    [message_digest |-> message_digest, merkle_root |-> merkle_root]

\* The public inputs a run is given: the signed digest with the distribution's
\* root; with the root of the tree whose only leaf is A's (no "0x"); another
\* digest; a digest that is not hex; a root one byte short.
ContextPool ==
    << PublicInputs(Hex32(SignedDigest), Hex32(DistributionRoot)),
       PublicInputs(Hex32(SignedDigest), HexString(FALSE, TRUE, Bytes32Len, Leaf(1))),
       PublicInputs(Hex32(OtherDigest), Hex32(DistributionRoot)),
       PublicInputs(HexString(TRUE, FALSE, Bytes32Len, SignedDigest),
                    Hex32(DistributionRoot)),
       PublicInputs(Hex32(SignedDigest),
                    HexString(TRUE, TRUE, Bytes32Len - 1, DistributionRoot)) >>

\* No function has been applied.
NotApplied == Panic("not applied")

NoProbe == [commitment |-> Unrelated, proof |-> [index |-> <<0, 0>>, proof |-> <<>>]]

\* ------------------------------------------------------------- main

\* Mutant of already_seen: the duplicate check never finds the address.
never_seen(seen, normalized_address) == FALSE

\* seen_addresses.contains(&normalized_address), line 153.
already_seen(seen, normalized_address) == normalized_address \in seen

\* Mutant of root_matches: the comparison with the expected root is lost.
root_always_matches(computed_root, expected) == TRUE

\* computed_root == expected_merkle_root, line 164.
root_matches(computed_root, expected) == computed_root = expected

\* Mutant of insert: the address is not recorded.
insert_nothing(seen, normalized_address) == seen

\* seen_addresses.insert(normalized_address), line 167.
insert(seen, normalized_address) == seen \cup {normalized_address}

\* What one iteration of the for loop does: kind "panic" (the run aborts at
\* `at`), "skip" (line 154), "reject" (the root differs) or "add" (lines
\* 166-167), with the total and the set it leaves.
Iteration(kind, total, seen, address, at) ==
    [kind |-> kind, total |-> total, seen |-> seen, address |-> address, at |-> at]

NoAddress == pubkey_to_address(hex_encode(0, [tag |-> 0, xy |-> KeyOf("")]))

\* total_balance += signed_message.balance, line 166: a panic under overflow
\* checks when the sum does not fit a u64, the sum modulo 2^64 without.
add_balance(total, balance) ==
    IF u64_add_overflows(total, balance) /\ overflow_checks
    THEN Panic("total_balance +=")
    ELSE Ok(u64_wrapping_add(total, balance))

\* The body of the for loop, lines 145-168.
loop_body(signed_message, expected, total, seen) ==
    LET pubkey == recover_pubkey_with_digest(public_inputs.message_digest,
                                             signed_message.signature)
    IN  IF ~pubkey.ok THEN Iteration("panic", total, seen, NoAddress, pubkey.at)
        ELSE
        LET recovered_address == pubkey_to_address(pubkey.val)
            normalized_address == to_lowercase(recovered_address)
            leaf_hash == hash_leaf(recovered_address, signed_message.balance)
            computed_root == compute_inclusion_root(leaf_hash,
                                                    signed_message.inclusion_branches)
            sum == add_balance(total, signed_message.balance)
        IN  IF already_seen(seen, normalized_address)
            THEN Iteration("skip", total, seen, normalized_address, "")
            ELSE IF ~computed_root.ok
            THEN Iteration("panic", total, seen, normalized_address, computed_root.at)
            ELSE IF ~root_matches(computed_root.val, expected)
            THEN Iteration("reject", total, seen, normalized_address, "")
            ELSE IF ~sum.ok
            THEN Iteration("panic", total, seen, normalized_address, sum.at)
            ELSE Iteration("add", sum.val, insert(seen, normalized_address),
                           normalized_address, "")

RECURSIVE LoopAfter(_, _, _)
\* The loop of line 144 after its first n iterations on signed_messages: the
\* last iteration's record, or kind "start" before the first.
LoopAfter(signed_messages, expected, n) ==
    IF n = 0 THEN Iteration("start", U64Zero, {}, NoAddress, "")
    ELSE LET before == LoopAfter(signed_messages, expected, n - 1)
         IN  IF before.kind = "panic" THEN before
             ELSE loop_body(signed_messages[n], expected, before.total, before.seen)

\* main() as a function of its inputs: the committed values, and where the
\* run aborted ("" when it returned).
main_result(merkle_root, signed_messages) ==
    LET root == hex_to_bytes32(merkle_root)
    IN  IF ~root.ok THEN [committed |-> <<>>, aborted_at |-> root.at]
        ELSE LET last == LoopAfter(signed_messages, root.val, Len(signed_messages))
             IN  IF last.kind = "panic"
                 THEN [committed |-> <<>>, aborted_at |-> last.at]
                 ELSE [committed |-> <<last.total>>, aborted_at |-> ""]

Runs == {1, 2}

\* Lines 130-142: the inputs are read, the root is parsed, the set and the
\* total are created.
Start(r) ==
    /\ r \in active
    /\ pc[r] = "start"
    /\ LET root == hex_to_bytes32(public_inputs.merkle_root)
       IN  IF root.ok
           THEN /\ pc' = [pc EXCEPT ![r] = "loop"]
                /\ expected_merkle_root' = [expected_merkle_root EXCEPT ![r] = root.val]
                /\ aborted_at' = aborted_at
           ELSE /\ pc' = [pc EXCEPT ![r] = "aborted"]
                /\ aborted_at' = [aborted_at EXCEPT ![r] = root.at]
                /\ expected_merkle_root' = expected_merkle_root
    /\ seen_addresses' = [seen_addresses EXCEPT ![r] = {}]
    /\ total_balance' = [total_balance EXCEPT ![r] = U64Zero]
    /\ next_message' = [next_message EXCEPT ![r] = 1]
    /\ UNCHANGED <<overflow_checks, public_inputs, private_inputs, active, committed,
                   contributed, probe, applied>>

\* One iteration of the for loop of line 144, on the next signed message.
ProcessMessage(r) ==
    /\ r \in active
    /\ pc[r] = "loop"
    /\ next_message[r] <= Len(private_inputs)
    /\ LET signed_message == private_inputs[next_message[r]]
       IN  \E done \in {loop_body(signed_message, expected_merkle_root[r],
                                  total_balance[r], seen_addresses[r])} :
           /\ total_balance' = [total_balance EXCEPT ![r] = done.total]
           /\ seen_addresses' = [seen_addresses EXCEPT ![r] = done.seen]
           /\ contributed' =
                  [contributed EXCEPT ![r] =
                      IF done.kind = "add"
                      THEN Append(@, [message |-> next_message[r],
                                      address |-> done.address,
                                      balance |-> signed_message.balance])
                      ELSE @]
           /\ IF done.kind = "panic"
              THEN /\ pc' = [pc EXCEPT ![r] = "aborted"]
                   /\ aborted_at' = [aborted_at EXCEPT ![r] = done.at]
                   /\ next_message' = next_message
              ELSE /\ pc' = pc
                   /\ aborted_at' = aborted_at
                   /\ next_message' = [next_message EXCEPT ![r] = @ + 1]
    /\ UNCHANGED <<overflow_checks, public_inputs, private_inputs, active,
                   expected_merkle_root, committed, probe, applied>>

\* Mutant of loop_ended: the total may be committed from inside the loop.
loop_may_end_early(position, signed_messages) == TRUE

\* The loop has ended: whether main() may leave the loop at this position.
loop_ended(position, signed_messages) == position > Len(signed_messages)

\* Line 172: the total is committed and main() returns.
Commit(r) ==
    /\ r \in active
    /\ pc[r] = "loop"
    /\ loop_ended(next_message[r], private_inputs)
    /\ committed' = [committed EXCEPT ![r] = Append(@, total_balance[r])]
    /\ pc' = [pc EXCEPT ![r] = "returned"]
    /\ UNCHANGED <<overflow_checks, public_inputs, private_inputs, active, next_message,
                   expected_merkle_root, seen_addresses, total_balance, aborted_at,
                   contributed, probe, applied>>

\* The state in which `runs` runs of main() are about to start on a list of
\* at most `longest` signed messages.
InitRuns(runs, longest) ==
    /\ overflow_checks \in BOOLEAN
    /\ \E c \in 1..Len(ContextPool) : public_inputs = ContextPool[c]
    /\ \E n \in 0..longest :
           \E pick \in [1..n -> 1..Len(ClaimPool)] :
               private_inputs = [j \in 1..n |-> ClaimPool[pick[j]]]
    /\ active = runs
    /\ pc = [r \in Runs |-> "start"]
    /\ next_message = [r \in Runs |-> 1]
    /\ expected_merkle_root = [r \in Runs |-> Unrelated]
    /\ seen_addresses = [r \in Runs |-> {}]
    /\ total_balance = [r \in Runs |-> U64Zero]
    /\ committed = [r \in Runs |-> <<>>]
    /\ aborted_at = [r \in Runs |-> ""]
    /\ contributed = [r \in Runs |-> <<>>]
    /\ probe = NoProbe
    /\ applied = NotApplied

Init == InitRuns({1}, MaxClaims)

Next == \E r \in Runs : Start(r) \/ ProcessMessage(r) \/ Commit(r)

Spec == Init /\ [][Next]_vars

\* Two runs of the same build on the same inputs, interleaved in any way.
InitPair == InitRuns(Runs, MaxPairClaims)

SpecPair == InitPair /\ [][Next]_vars

\* ------------------------------------- compute_inclusion_root alone

\* Longest sibling path drawn level by level.
MaxDepth == 2

\* A path one level longer than the index has bits.
LongDepth == U32Bits + 1

IndexPool ==
    << <<0, 0>>, <<1, 0>>, <<2, 0>>, <<3, 0>>, <<0, LimbBase \div 2>>,
       <<LimbBase - 1, LimbBase - 1>> >>

SiblingPool ==
    << Hex32(Leaf(2)), HexString(FALSE, TRUE, Bytes32Len, Unrelated),
       HexString(TRUE, FALSE, Bytes32Len, Leaf(2)) >>

CommitmentPool == << Leaf(1), Unrelated >>

InitRoot ==
    /\ overflow_checks \in BOOLEAN
    /\ public_inputs = ContextPool[1]
    /\ private_inputs = <<>>
    /\ active = {}
    /\ pc = [r \in Runs |-> "start"]
    /\ next_message = [r \in Runs |-> 1]
    /\ expected_merkle_root = [r \in Runs |-> Unrelated]
    /\ seen_addresses = [r \in Runs |-> {}]
    /\ total_balance = [r \in Runs |-> U64Zero]
    /\ committed = [r \in Runs |-> <<>>]
    /\ aborted_at = [r \in Runs |-> ""]
    /\ contributed = [r \in Runs |-> <<>>]
    /\ \E c \in 1..Len(CommitmentPool), x \in 1..Len(IndexPool) :
           \E proof \in
                  UNION {[1..n -> 1..Len(SiblingPool)] : n \in 0..MaxDepth}
                  \cup {[k \in 1..LongDepth |-> 1], [k \in 1..LongDepth |-> 2]} :
               probe = [commitment |-> CommitmentPool[c],
                        proof |-> [index |-> IndexPool[x],
                                   proof |-> [k \in 1..Len(proof) |->
                                                 SiblingPool[proof[k]]]]]
    /\ applied = NotApplied

\* compute_inclusion_root is called on the probe.
ApplyRoot ==
    /\ applied = NotApplied
    /\ applied' = compute_inclusion_root(probe.commitment, probe.proof)
    /\ UNCHANGED <<overflow_checks, public_inputs, private_inputs, active, pc,
                   next_message, expected_merkle_root, seen_addresses, total_balance,
                   committed, aborted_at, contributed, probe>>

NextRoot == ApplyRoot

SpecRoot == InitRoot /\ [][NextRoot]_vars

\* ------------------------------------------------------------ claims

\* What a signed message is, whatever the loop does with it: the address its
\* signature recovers to under the run's digest (ok FALSE: recovery fails).
IdentityOf(signed_message) ==
    LET pubkey == recover_pubkey_with_digest(public_inputs.message_digest,
                                             signed_message.signature)
    IN  IF pubkey.ok THEN Ok(to_lowercase(pubkey_to_address(pubkey.val))) ELSE pubkey

\* The root its proof leads to from the leaf of (recovered address, balance).
ComputedRootOf(signed_message) ==
    LET identity == IdentityOf(signed_message)
    IN  IF ~identity.ok THEN identity
        ELSE compute_inclusion_root(hash_leaf(identity.val, signed_message.balance),
                                    signed_message.inclusion_branches)

\* It passes the inclusion check against the run's root.
Verifies(signed_message, expected) ==
    \A root \in {ComputedRootOf(signed_message)} : root.ok /\ root.val = expected

\* Its root is computed and differs from the run's: the inclusion check fails.
FailsInclusion(signed_message, expected) ==
    \A root \in {ComputedRootOf(signed_message)} : root.ok /\ root.val # expected

HasIdentity(signed_message, address) ==
    \A identity \in {IdentityOf(signed_message)} : identity.ok /\ identity.val = address

\* The messages of the list the loop has gone through.
Processed(r) ==
    IF pc[r] = "start" THEN {} ELSE 1..(next_message[r] - 1)

Ended(r) == pc[r] \in {"returned", "aborted"}

\* Limbs enough for the exact sum of any list of balances of the model.
WideLimbs == U64Limbs + 2

RECURSIVE ExactSum(_, _)
\* The sum, not reduced, of the balances of the first n entries.
ExactSum(entries, n) ==
    IF n = 0 THEN U64Zero
    ELSE AddLimbs(ExactSum(entries, n - 1), entries[n].balance, WideLimbs)

RECURSIVE WrappedSum(_, _)
WrappedSum(entries, n) ==
    IF n = 0 THEN U64Zero
    ELSE u64_wrapping_add(WrappedSum(entries, n - 1), entries[n].balance)

RECURSIVE FirstVerified(_, _, _)
\* One (address, balance) per identity among the first n messages: that of the
\* first message of the identity that passes the inclusion check.
FirstVerified(signed_messages, expected, n) ==
    IF n = 0 THEN <<>>
    ELSE LET earlier == FirstVerified(signed_messages, expected, n - 1)
             m == signed_messages[n]
         IN  IF /\ Verifies(m, expected)
                /\ \A k \in 1..Len(earlier) : ~HasIdentity(m, earlier[k].address)
             THEN Append(earlier, [address |-> IdentityOf(m).val, balance |-> m.balance])
             ELSE earlier

\* C1 as stated: of two messages that recover to the same identity and carry
\* different balances, only the first in input order contributes, with its
\* own balance: nothing is contributed under that identity by the later one.
C1_OnlyFirstInOrderContributes ==
    \A r \in active :
      \A j \in Processed(r), k \in Processed(r) :
        \A first \in {private_inputs[j]}, later \in {private_inputs[k]} :
          \A identity \in {IdentityOf(first)} :
            ( /\ j < k
              /\ identity.ok
              /\ HasIdentity(later, identity.val)
              /\ first.balance # later.balance )
            => \A e \in 1..Len(contributed[r]) :
                  contributed[r][e].address = identity.val
                  => contributed[r][e].message # k

\* C1 amended: under one identity at most one message contributes: the first
\* in input order that passes the inclusion check, with exactly its balance;
\* no later message of the identity contributes, whatever its balance or proof.
C1_OnlyFirstVerifiedContributes ==
    \A r \in active :
      /\ \A e \in 1..Len(contributed[r]) :
           \A c \in {contributed[r][e]} :
             /\ c.message \in Processed(r)
             /\ HasIdentity(private_inputs[c.message], c.address)
             /\ c.balance = private_inputs[c.message].balance
             /\ Verifies(private_inputs[c.message], expected_merkle_root[r])
             /\ \A i \in 1..(c.message - 1) :
                  HasIdentity(private_inputs[i], c.address)
                  => ~Verifies(private_inputs[i], expected_merkle_root[r])
             /\ \A f \in 1..Len(contributed[r]) :
                  contributed[r][f].address = c.address => f = e
      /\ total_balance[r] = WrappedSum(contributed[r], Len(contributed[r]))

\* Two verifying messages of one identity with different balances have been
\* processed; the first contributed and the second did not.
C1_Witness ==
    /\ pc[1] = "returned"
    /\ \E j \in Processed(1), k \in Processed(1) :
         /\ j < k
         /\ Verifies(private_inputs[j], expected_merkle_root[1])
         /\ Verifies(private_inputs[k], expected_merkle_root[1])
         /\ IdentityOf(private_inputs[j]) = IdentityOf(private_inputs[k])
         /\ private_inputs[j].balance # private_inputs[k].balance
         /\ \E e \in 1..Len(contributed[1]) : contributed[1][e].message = j
         /\ committed[1] = <<private_inputs[j].balance>>

\* C2: a run that completes commits the sum of the balances of the distinct
\* identities that were verified, one balance per identity, taken from the
\* message that passed the inclusion check.
C2_CommitsSumOfVerified ==
    \A r \in active :
      pc[r] = "returned"
      => \A verified \in {FirstVerified(private_inputs, expected_merkle_root[r],
                                        Len(private_inputs))} :
           /\ Len(committed[r]) = 1
           /\ SameNumber(committed[r][1], ExactSum(verified, Len(verified)))

\* C3: the addition is overflow-detecting: the total a run holds or commits is
\* the exact sum of the balances added, never that sum reduced modulo 2^64.
C3_TotalNeverWraps ==
    \A r \in active :
      SameNumber(total_balance[r], ExactSum(contributed[r], Len(contributed[r])))

\* The signature is structurally malformed: not hex, not 65 bytes, a recovery
\* byte outside {27, 28}, or no point to recover.
Malformed(signature) ==
    \/ ~signature.valid
    \/ signature.nbytes # SigLen
    \/ signature.v \notin {VOffset, VOffset + 1}
    \/ signature.rs.shape # "signed"

\* C4: a message with a malformed signature does not abort the run: a run that
\* entered the loop never ends in a panic at a message whose signature is
\* malformed.
C4_MalformedSignatureDoesNotAbort ==
    \A r \in active :
      ( /\ pc[r] = "aborted"
        /\ hex_to_bytes32(public_inputs.merkle_root).ok
        /\ next_message[r] <= Len(private_inputs) )
      => ~Malformed(private_inputs[next_message[r]].signature)

\* C5 (state): an address is in seen_addresses exactly when a processed message
\* contributed its balance under it, and the set has as many addresses as there
\* are contributions, whose balances make up the total.
C5_SeenIffContributed ==
    \A r \in active :
      /\ seen_addresses[r] =
             {contributed[r][e].address : e \in 1..Len(contributed[r])}
      /\ Cardinality(seen_addresses[r]) = Len(contributed[r])
      /\ \A e \in 1..Len(contributed[r]) : contributed[r][e].message \in Processed(r)
      /\ total_balance[r] = WrappedSum(contributed[r], Len(contributed[r]))

\* C5 (step): no step removes an address from seen_addresses, and an address
\* enters it only in a step that records a contribution under it.
C5_SeenOnlyGrows ==
    \A r \in active :
      /\ seen_addresses[r] \subseteq seen_addresses'[r]
      /\ Cardinality(seen_addresses'[r]) - Cardinality(seen_addresses[r])
             = Len(contributed'[r]) - Len(contributed[r])

\* C5: in every reachable state of the loop an identity is in SeenSet iff a
\* processed claim contributed under it, the size of SeenSet is the number of
\* contributing claims, and SeenSet only grows.
C5_SeenSetInvariant == [](C5_SeenIffContributed) /\ [][C5_SeenOnlyGrows]_vars

\* Two identities are in seen_addresses after three messages, one skipped.
C5_Witness ==
    /\ Cardinality(seen_addresses[1]) = 2
    /\ Len(contributed[1]) = 2
    /\ next_message[1] = 4

\* The list without its message at position j.
RemoveAt(signed_messages, j) ==
    [k \in 1..(Len(signed_messages) - 1) |->
        IF k < j THEN signed_messages[k] ELSE signed_messages[k + 1]]

\* C6 (step): processing a message whose computed root differs from the run's
\* root leaves the total and seen_addresses unchanged.
C6_FailingStepChangesNothing ==
    \A r \in active :
      ( /\ pc[r] = "loop"
        /\ next_message[r] <= Len(private_inputs)
        /\ next_message'[r] = next_message[r] + 1
        /\ FailsInclusion(private_inputs[next_message[r]], expected_merkle_root[r]) )
      => /\ total_balance'[r] = total_balance[r]
         /\ seen_addresses'[r] = seen_addresses[r]
         /\ contributed'[r] = contributed[r]

\* C6 (run): a run that has ended has the outcome, and the committed total, of
\* the run on the list without any one message that fails the inclusion check.
C6_SameWithoutFailingMessage ==
    \A r \in active :
      Ended(r)
      => \A j \in 1..Len(private_inputs) :
           FailsInclusion(private_inputs[j], expected_merkle_root[r])
           => \A without \in {main_result(public_inputs.merkle_root,
                                          RemoveAt(private_inputs, j))} :
                /\ without.committed = committed[r]
                /\ without.aborted_at = aborted_at[r]

\* C6: a message that fails the inclusion check changes neither the total nor
\* SeenSet, and removing it from the list does not change the committed total.
C6_FailingMessageHasNoEffect ==
    [](C6_SameWithoutFailingMessage) /\ [][C6_FailingStepChangesNothing]_vars

\* A run returned a non-zero total from a list with a failing message before a
\* contributing one.
C6_Witness ==
    /\ pc[1] = "returned"
    /\ \E j \in 1..Len(private_inputs), e \in 1..Len(contributed[1]) :
         /\ FailsInclusion(private_inputs[j], expected_merkle_root[1])
         /\ j < contributed[1][e].message
    /\ total_balance[1] # U64Zero

\* The holder whose key made the signature, when it is a signature over the
\* run's digest with the matching recovery byte; "" for any other signature.
SignerOf(signature) ==
    IF /\ ~Malformed(signature)
       /\ Hex32(signature.rs.digest).bytes = public_inputs.message_digest.bytes
       /\ signature.v - VOffset = signature.rs.parity
    THEN signature.rs.signer
    ELSE ""

\* The (holder, balance) pairs committed to by a root.
HoldingsUnder(root) ==
    IF root = DistributionRoot
    THEN {[owner |-> Distribution[k].owner, balance |-> Distribution[k].balance] :
             k \in 1..Len(Distribution)}
    ELSE IF root = Leaf(1)
    THEN {[owner |-> Distribution[1].owner, balance |-> Distribution[1].balance]}
    ELSE {}

\* C7: the identity of a contribution is the one recovered from the message's
\* signature: a message adds its balance only if the holder of the signing key
\* holds that balance in the distribution, whoever's balance and proof it
\* carries, and it is that holder's address that enters seen_addresses.
C7_NoSpoofing ==
    \A r \in active :
      \A e \in 1..Len(contributed[r]) :
        \A c \in {contributed[r][e]} :
          \A signer \in {SignerOf(private_inputs[c.message].signature)} :
            /\ signer # ""
            /\ c.address = AddressOf(signer)
            /\ c.address \in seen_addresses[r]
            /\ [owner |-> signer, balance |-> c.balance]
                   \in HoldingsUnder(expected_merkle_root[r])

\* A's signature with B's balance and B's proof was processed and added nothing,
\* in a run that returned.
C7_Witness ==
    /\ pc[1] = "returned"
    /\ expected_merkle_root[1] = DistributionRoot
    /\ \E j \in 1..Len(private_inputs) :
         /\ SignerOf(private_inputs[j].signature) = "A"
         /\ private_inputs[j].balance = Distribution[2].balance
         /\ private_inputs[j].inclusion_branches = ProofOf(2)
    /\ contributed[1] = <<>>
    /\ committed[1] = <<U64Zero>>

\* C8: every run processes each message once, in order, then commits the total
\* once: nothing is committed before the last message has been processed, and
\* no run (on a digest, a root and siblings that are 32-byte hex strings) ends
\* without a committed total.
C8_EveryRunCommitsOnce ==
    \A r \in active :
      /\ ( /\ hex_to_bytes32(public_inputs.merkle_root).ok
           /\ hex_to_bytes32(public_inputs.message_digest).ok
           /\ \A j \in 1..Len(private_inputs) :
                \A k \in 1..Len(private_inputs[j].inclusion_branches.proof) :
                  hex_to_bytes32(private_inputs[j].inclusion_branches.proof[k]).ok )
         => pc[r] # "aborted"
      /\ committed[r] # <<>>
           => /\ pc[r] = "returned"
              /\ next_message[r] = Len(private_inputs) + 1
              /\ Len(committed[r]) = 1
      /\ pc[r] = "returned" => committed[r] = <<total_balance[r]>>

\* What a run holds.
RunState(r) ==
    <<pc[r], next_message[r], expected_merkle_root[r], seen_addresses[r],
      total_balance[r], committed[r], aborted_at[r]>>

PathBit(bits, i) == IF i < U32Bits THEN BitOf(bits, i) ELSE 0

RECURSIVE ReferenceFold(_, _, _, _)
\* The reference fold over the first n siblings: hash(current || sibling) when
\* bit i of the path bits is 0, hash(sibling || current) when it is 1.
ReferenceFold(leaf, bits, siblings, n) ==
    IF n = 0 THEN leaf
    ELSE LET current == ReferenceFold(leaf, bits, siblings, n - 1)
         IN  IF PathBit(bits, n - 1) = 0
             THEN Keccak256([left |-> current, right |-> siblings[n].bytes])
             ELSE Keccak256([left |-> siblings[n].bytes, right |-> current])

\* C10: compute_inclusion_root is the reference fold, for every leaf, every
\* 32-bit index and every sequence of (well-formed) siblings of any length.
C10_RootIsReferenceFold ==
    ( /\ applied # NotApplied
      /\ \A k \in 1..Len(probe.proof.proof) : hex_to_bytes32(probe.proof.proof[k]).ok )
    => /\ applied.ok
       /\ applied.val = ReferenceFold(probe.commitment, probe.proof.index,
                                      probe.proof.proof, Len(probe.proof.proof))

====
